---------------------------- MODULE Spec2Model ----------------------------
(***************************************************************************)
(* Memristor array controller (memristor_learning): the adaptive pulse     *)
(* quantizer (LevelsVoltageConverter), the single device (Memristor) with  *)
(* its power-law resistance update, the differential pairs                 *)
(* (MemristorPlusMinus, MemristorComplementary) and the array controller   *)
(* (MemristorArray), which routes every call to the learning rule or to a  *)
(* read-only forward pass and logs a snapshot per call.                    *)
(*                                                                         *)
(* Reals are fixed-point integers.  Resistances are in MOhm, conductances  *)
(* in 1/GUnit of a 1/MOhm, scaled states in 1/Unit, pulse numbers in       *)
(* 1/NUnit, the components of the input vector in 1/XUnit.                 *)
(***************************************************************************)
EXTENDS Integers, Sequences, FiniteSets, TLC

VARIABLES
    \* configuration, fixed at construction
    input_size, output_size,   \* MemristorController.input_size / output_size
    model,                     \* class of the array's elements
    gain,                      \* MemristorController.gain
    seed,                      \* MemristorController.seed: "None" or "fixed"
    levels,                    \* LevelsVoltageConverter.levels
    has_learning_signal,       \* learning_rule.has_learning_signal
    has_error_signal,          \* learning_rule.has_error_signal
    law,                       \* the Memristor subclass the devices are built from
    \* the shared LevelsVoltageConverter
    smallest_seen, largest_seen,
    \* the array
    r_curr,                    \* position -> [one, two]: Memristor.r_curr
    history,                   \* position -> sequence of [one, two]: Memristor.history
    weights,                   \* position -> weight
    weight_history, error_history, conductance_history,
    rule_error,                \* the learning rule's last error signal
    \* what the last call of the controller did
    numCalls, outcome, path, x_in, rule_calls, rule_arg, rule_ret, ret, pulsed,
    \* the converter called on its own: signals fed and ranks returned
    fed, ranks,
    \* the last call made on a device or a query of the controller, on its own
    probe

config == <<input_size, output_size, model, gain, seed, levels,
            has_learning_signal, has_error_signal, law>>
converter == <<smallest_seen, largest_seen>>
array == <<r_curr, history, weights, weight_history, error_history,
           conductance_history, rule_error>>
lastcall == <<numCalls, outcome, path, x_in, rule_calls, rule_arg, rule_ret,
              ret, pulsed>>
direct == <<fed, ranks>>
vars == <<config, converter, array, lastcall, direct, probe>>

---------------------------------------------------------------------------
(* Bounds of the model *)

\* calls of the controller in one run
MaxCalls == 2
\* calls of a converter on its own
MaxFeeds == 4
\* pulses of a device on its own
MaxPulses == 2

---------------------------------------------------------------------------
(* Fixed-point resolutions and program constants *)

\* scaled (0..1) states are counted in 1/Unit
Unit == 1000
\* conductances are counted in 1/GUnit of 1/MOhm
GUnit == 1000000
\* pulse numbers are counted in 1/NUnit
NUnit == 100
\* components of the input vector are counted in 1/XUnit
XUnit == 4
\* np.finfo(float).eps: one unit in the last place of the fixed point
epsilon == 1
\* Memristor.get_state(gain=1e5)
DefaultGain == 100000
\* MemristorPair.get_state(gain=10**4)
PairDefaultGain == 10000
\* base_voltage, in units of 0.1 V
base_voltage == 1
\* lower resistance bound r_0 of the power law, MOhm
r_0 == 10
\* r_1 of the power law (2.5e8 Ohm), MOhm
r_1 == 250
\* BidirectionalPowerlawMemristor.r_3 = 1e9 Ohm, MOhm
r_3 == 1000
\* random.uniform( 1e8, 1.1e8 ): the ends of the range, MOhm
InitR == {100, 110}

---------------------------------------------------------------------------
(* Helpers *)

Sign(v) == IF v > 0 THEN 1 ELSE IF v < 0 THEN -1 ELSE 0

Min(a, b) == IF a <= b THEN a ELSE b

RECURSIVE SumTo(_, _)
\* sum of f[1..n]
SumTo(f, n) == IF n = 0 THEN 0 ELSE f[n] + SumTo(f, n - 1)

\* rounding with halves going up, as a plain round-half-up would
rint_half_up(v, unit) == (2 * v + unit) \div (2 * unit)

\* np.rint on a value counted in 1/unit: nearest integer, halves to even
rint(v, unit) ==
    LET q == v \div unit
        rem == v % unit
    IN  IF 2 * rem < unit THEN q
        ELSE IF 2 * rem > unit THEN q + 1
        ELSE IF q % 2 = 0 THEN q ELSE q + 1

---------------------------------------------------------------------------
(* LevelsVoltageConverter *)

\* np.linspace( lo, hi, num=n )[k] <= s, for k in 0..n-1, without division:
\* the k-th point is lo + k * (hi - lo) / (n - 1); for n = 1 it is lo
PointAtMost(lo, hi, n, k, s) ==
    IF n = 1 THEN lo <= s
    ELSE lo * (n - 1) + k * (hi - lo) <= s * (n - 1)

\* the same with the strict comparison searchsorted( side="left" ) makes
PointBelow(lo, hi, n, k, s) ==
    IF n = 1 THEN lo < s
    ELSE lo * (n - 1) + k * (hi - lo) < s * (n - 1)

\* np.searchsorted( steps, signal, side="left" )
searchsorted_left(lo, hi, n, s) ==
    Cardinality({k \in 0..(n - 1) : PointBelow(lo, hi, n, k, s)})

\* np.searchsorted( np.linspace( lo, hi, num=n ), signal, side="right" )
searchsorted(lo, hi, n, s) ==
    Cardinality({k \in 0..(n - 1) : PointAtMost(lo, hi, n, k, s)})

\* LevelsVoltageConverter.__call__: the extremes are updated first
Convert(lo, hi, n, signal) ==
    LET lo2 == IF signal < lo THEN signal ELSE lo
        hi2 == IF signal > hi THEN signal ELSE hi
    IN  [smallest |-> lo2, largest |-> hi2,
         num_steps |-> searchsorted(lo2, hi2, n, signal)]

---------------------------------------------------------------------------
(* Memristor and its four laws.  The power laws have exponents a = c = -1;  *)
(* the empirical laws have the exponent a + b * V = -2 for a positive and   *)
(* -1 for a negative V of one base voltage.                                 *)

\* Memristor.get_state
get_state(r, value, scaled, g) ==
    CASE value = "conductance" ->
            LET g_curr == GUnit \div r
                g_min == GUnit \div r_1
                g_max == GUnit \div r_0
            IN  IF scaled
                THEN g * ((((g_curr - g_min) * Unit) \div (g_max - g_min)) + epsilon)
                ELSE g * (g_curr + epsilon)
      [] value = "resistance" ->
            IF scaled
            THEN g * ((((r - r_0) * Unit) \div (r_1 - r_0)) + epsilon)
            ELSE g * (r + epsilon)

\* (num / den)**(1 / -1) in 1/NUnit; 0.0 to a negative power raises
PowInverse(num, den) ==
    IF num = 0 THEN [err |-> "ZeroDivisionError", n |-> 0]
    ELSE [err |-> "", n |-> (den * NUnit) \div num]

\* a and b of the empirical laws, counted in halves per base voltage:
\* a = -1.5, b = -0.5, so that a + b * V is negative for either sign of V,
\* as it is with the defaults a = -0.128, b = -0.522 at 0.1 V
anouk_a == -3
anouk_b == -1
\* c and d of MemristorAnoukBidirectional: their defaults are those of a, b
anouk_c == anouk_a
anouk_d == anouk_b

\* the exponent p + q * V of the empirical laws, in halves
Exponent(p, q, V) == p + q * V

RECURSIVE IsqrtIn(_, _, _)
\* the integer square root of m, known to lie in lo..(hi - 1)
IsqrtIn(m, lo, hi) ==
    IF hi - lo <= 1 THEN lo
    ELSE IF ((lo + hi) \div 2) * ((lo + hi) \div 2) <= m
         THEN IsqrtIn(m, (lo + hi) \div 2, hi)
         ELSE IsqrtIn(m, lo, (lo + hi) \div 2)

\* the integer square root of m
Isqrt(m) == IsqrtIn(m, 0, Min(m, 46339) + 1)

\* (num / den)**(1 / e) in 1/NUnit for the exponent e = e2 / 2, -1 or -2
PowRoot(num, den, e2) ==
    IF num = 0 THEN [err |-> "ZeroDivisionError", n |-> 0]
    ELSE CASE e2 = -2 -> [err |-> "", n |-> (den * NUnit) \div num]
           [] e2 = -4 -> [err |-> "", n |-> Isqrt((den * NUnit * NUnit) \div num)]

\* coef * n**e for n in 1/NUnit and the exponent e = e2 / 2, -1 or -2
PowScaled(coef, n, e2) ==
    CASE e2 = -2 -> (coef * NUnit) \div n
      [] e2 = -4 -> (coef * NUnit * NUnit) \div (n * n)

\* OnedirectionalPowerlawMemristor.compute_pulse_number: for V < 0 nothing is
\* returned, and pulse_number + 1 in Memristor.pulse raises on the None
Onedirectional_compute_pulse_number(R, V) ==
    IF V >= 0 THEN PowInverse(R - r_0, r_1)
    ELSE [err |-> "TypeError", n |-> 0]

\* BidirectionalPowerlawMemristor.compute_pulse_number
Bidirectional_compute_pulse_number(R, V) ==
    IF V >= 0 THEN PowInverse(R - r_0, r_1)
    ELSE PowInverse(r_3 - R, r_3)

\* MemristorAnouk.compute_pulse_number
Anouk_compute_pulse_number(R, V) ==
    PowRoot(R - r_0, r_1, Exponent(anouk_a, anouk_b, V))

\* MemristorAnoukBidirectional.compute_pulse_number
AnoukBidirectional_compute_pulse_number(R, V) ==
    IF V >= 0 THEN PowRoot(R - r_0, r_1, Exponent(anouk_a, anouk_b, V))
    ELSE PowRoot(r_3 - R, r_3, Exponent(anouk_c, anouk_d, -V))

\* self.compute_pulse_number( R, V ) of a device of the class law
compute_pulse_number(R, V) ==
    CASE law = "OnedirectionalPowerlawMemristor" ->
            Onedirectional_compute_pulse_number(R, V)
      [] law = "BidirectionalPowerlawMemristor" ->
            Bidirectional_compute_pulse_number(R, V)
      [] law = "MemristorAnouk" -> Anouk_compute_pulse_number(R, V)
      [] law = "MemristorAnoukBidirectional" ->
            AnoukBidirectional_compute_pulse_number(R, V)

\* OnedirectionalPowerlawMemristor.compute_resistance, n in 1/NUnit
Onedirectional_compute_resistance(n, V, r) ==
    IF V > 0
    THEN IF n = 0 THEN [err |-> "ZeroDivisionError", r |-> r]
         ELSE [err |-> "", r |-> r_0 + (r_1 * NUnit) \div n]
    ELSE [err |-> "", r |-> r]

\* BidirectionalPowerlawMemristor.compute_resistance, n in 1/NUnit
Bidirectional_compute_resistance(n, V, r) ==
    IF n = 0 /\ V # 0 THEN [err |-> "ZeroDivisionError", r |-> r]
    ELSE IF V > 0 THEN [err |-> "", r |-> r_0 + (r_1 * NUnit) \div n]
    ELSE IF V < 0 THEN [err |-> "", r |-> r_3 - (r_3 * NUnit) \div n]
    ELSE [err |-> "", r |-> r]

\* MemristorAnouk.compute_resistance: one branch for either sign of V
Anouk_compute_resistance(n, V, r) ==
    IF n = 0 THEN [err |-> "ZeroDivisionError", r |-> r]
    ELSE [err |-> "",
          r |-> r_0 + PowScaled(r_1, n, Exponent(anouk_a, anouk_b, V))]

\* MemristorAnoukBidirectional.compute_resistance
AnoukBidirectional_compute_resistance(n, V, r) ==
    IF n = 0 /\ V # 0 THEN [err |-> "ZeroDivisionError", r |-> r]
    ELSE IF V > 0
         THEN [err |-> "",
               r |-> r_0 + PowScaled(r_1, n, Exponent(anouk_a, anouk_b, V))]
    ELSE IF V < 0
         THEN [err |-> "",
               r |-> r_3 - PowScaled(r_3, n, Exponent(anouk_c, anouk_d, -V))]
    ELSE [err |-> "", r |-> r]

\* self.compute_resistance( n, V ) of a device of the class law
compute_resistance(n, V, r) ==
    CASE law = "OnedirectionalPowerlawMemristor" ->
            Onedirectional_compute_resistance(n, V, r)
      [] law = "BidirectionalPowerlawMemristor" ->
            Bidirectional_compute_resistance(n, V, r)
      [] law = "MemristorAnouk" -> Anouk_compute_resistance(n, V, r)
      [] law = "MemristorAnoukBidirectional" ->
            AnoukBidirectional_compute_resistance(n, V, r)

\* one pass of the loop that takes every pulse for the first of the law:
\* the pulse number is not read back from the resistance
Advance_FromFirstPulse(pn, r, V) ==
    IF pn.err # "" THEN [err |-> pn.err, r |-> r]
    ELSE compute_resistance(NUnit, V, r)

\* one pass of the loop of Memristor.pulse, the pulse number pn computed:
\* the resistance one pulse further
Advance(pn, r, V) ==
    IF pn.err # "" THEN [err |-> pn.err, r |-> r]
    ELSE compute_resistance(pn.n + NUnit, V, r)

RECURSIVE PulseLoop(_, _, _)
\* the rest of the loop after a pass that gave st
PulseRest(st, V, k) ==
    IF st.err # "" THEN st ELSE PulseLoop(st.r, V, k)

\* the loop of Memristor.pulse: k times, invert the law then advance it by one
PulseLoop(r, V, k) ==
    IF k = 0 THEN [err |-> "", r |-> r]
    ELSE PulseRest(Advance(compute_pulse_number(r, V), r, V), V, k - 1)

\* the answer c of the one call made to the converter; the rank is kept
\* or replaced by 0
Counted(c, keep) ==
    [smallest |-> c.smallest, largest |-> c.largest,
     num_steps |-> IF keep THEN c.num_steps ELSE 0, consulted |-> 1]

\* the converter called first, its rank replaced by 0 for a zero signal
NumSteps_ConvertFirst(signal, lo, hi) ==
    Counted(Convert(lo, hi, levels, signal), signal # 0)

\* num_steps = self.voltage_converter( signal ) if signal != 0 else 0
NumSteps(signal, lo, hi) ==
    IF signal # 0 THEN Counted(Convert(lo, hi, levels, signal), TRUE)
    ELSE [smallest |-> lo, largest |-> hi, num_steps |-> 0, consulted |-> 0]

\* what Memristor.pulse leaves and returns, its loop having given res
PulseReturn(res, cv) ==
    [err |-> res.err, r |-> res.r,
     smallest |-> cv.smallest, largest |-> cv.largest,
     ret |-> get_state(res.r, "conductance", TRUE, gain),
     num_steps |-> cv.num_steps, consulted |-> cv.consulted]

\* Memristor.pulse once the converter has answered cv
PulseSteps(cv, r, signal) ==
    PulseReturn(PulseLoop(r, Sign(signal) * base_voltage, cv.num_steps), cv)

\* Memristor.pulse on a device of resistance r, the shared converter holding
\* the extremes lo, hi: the device's new resistance, the converter's new
\* extremes and the returned state
MemristorPulse(r, signal, lo, hi) ==
    PulseSteps(NumSteps(signal, lo, hi), r, signal)

---------------------------------------------------------------------------
(* MemristorPair, MemristorPlusMinus, MemristorComplementary *)

\* MemristorPair.get_state
PairGetState(rr, value, scaled, g) ==
    get_state(rr.one, value, scaled, g) - get_state(rr.two, value, scaled, g)

\* the result of a pair's pulse: the pair's resistances, the converter, the
\* returned weight and the drive each device received (none: the empty set)
PairResult(err, one, two, lo, hi, d1, d2) ==
    [err |-> err, r |-> [one |-> one, two |-> two],
     smallest |-> lo, largest |-> hi,
     ret |-> get_state(one, "conductance", TRUE, DefaultGain)
             - get_state(two, "conductance", TRUE, DefaultGain),
     d1 |-> d1, d2 |-> d2]

\* mem_one pulsed with result p1 and mem_two with result p2
BothPulsed(p1, p2, s1, s2) ==
    PairResult(p2.err, p1.r, p2.r, p2.smallest, p2.largest, {s1}, {s2})

\* mem_one pulsed with result p1: unless it raised, mem_two is pulsed with s2
ThenPulseTwo(p1, rr, s1, s2) ==
    IF p1.err # ""
    THEN PairResult(p1.err, p1.r, rr.two, p1.smallest, p1.largest, {s1}, {})
    ELSE BothPulsed(p1, MemristorPulse(rr.two, s2, p1.smallest, p1.largest), s1, s2)

\* a pulse of mem_one with s1, then of mem_two with s2
PulseBoth(rr, s1, s2, lo, hi) ==
    ThenPulseTwo(MemristorPulse(rr.one, s1, lo, hi), rr, s1, s2)

\* mem_one alone pulsed with result p1
OnePulsed(p1, rr, s1) ==
    PairResult(p1.err, p1.r, rr.two, p1.smallest, p1.largest, {s1}, {})

\* a pulse of mem_one alone
PulseOne(rr, s1, lo, hi) == OnePulsed(MemristorPulse(rr.one, s1, lo, hi), rr, s1)

\* mem_two alone pulsed with result p2
TwoPulsed(p2, rr, s2) ==
    PairResult(p2.err, rr.one, p2.r, p2.smallest, p2.largest, {}, {s2})

\* a pulse of mem_two alone
PulseTwo(rr, s2, lo, hi) == TwoPulsed(MemristorPulse(rr.two, s2, lo, hi), rr, s2)

\* MemristorPlusMinus.pulse driving mem_two with the signal as it came
PlusMinusPulse_NoFlip(rr, signal, lo, hi) ==
    IF signal > 0 THEN PulseOne(rr, signal, lo, hi)
    ELSE IF signal < 0 THEN PulseTwo(rr, signal, lo, hi)
    ELSE PairResult("", rr.one, rr.two, lo, hi, {}, {})

\* MemristorPlusMinus.pulse
PlusMinusPulse(rr, signal, lo, hi) ==
    IF signal > 0 THEN PulseOne(rr, signal, lo, hi)
    ELSE IF signal < 0 THEN PulseTwo(rr, -signal, lo, hi)
    ELSE PairResult("", rr.one, rr.two, lo, hi, {}, {})

\* MemristorComplementary.pulse
ComplementaryPulse(rr, signal, lo, hi) ==
    IF signal > 0 THEN PulseBoth(rr, signal, -signal, lo, hi)
    ELSE IF signal < 0 THEN PulseBoth(rr, -signal, signal, lo, hi)
    ELSE PairResult("", rr.one, rr.two, lo, hi, {}, {})

\* the lone Memristor pulsed with result p
SinglePulsed(p, rr, signal) ==
    [err |-> p.err, r |-> [one |-> p.r, two |-> rr.two],
     smallest |-> p.smallest, largest |-> p.largest, ret |-> p.ret,
     d1 |-> {signal}, d2 |-> {}]

\* a lone Memristor as the array's element: only mem "one" exists
SinglePulse(rr, signal, lo, hi) ==
    SinglePulsed(MemristorPulse(rr.one, signal, lo, hi), rr, signal)

\* memristors[ j, i ].pulse( signal ), by the class of the element
ElementPulse(rr, signal, lo, hi) ==
    CASE model = "Memristor" -> SinglePulse(rr, signal, lo, hi)
      [] model = "MemristorPlusMinus" -> PlusMinusPulse(rr, signal, lo, hi)
      [] model = "MemristorComplementary" -> ComplementaryPulse(rr, signal, lo, hi)

\* memristors[ j, i ].get_state( value, scaled, g )
ElementGetState(rr, value, scaled, g) ==
    IF model = "Memristor" THEN get_state(rr.one, value, scaled, g)
    ELSE PairGetState(rr, value, scaled, g)

\* memristors[ i, j ].get_state() as MemristorArray.__init__ calls it: every
\* argument takes the default of the element's class
ElementInitialState(rr) ==
    IF model = "Memristor" THEN get_state(rr.one, "conductance", TRUE, DefaultGain)
    ELSE PairGetState(rr, "conductance", TRUE, PairDefaultGain)

---------------------------------------------------------------------------
(* The array and the learning rule bound to it *)

Pos == (1..output_size) \X (1..input_size)

\* np.dot( w, v ) of the output_size x input_size matrix w and the vector v:
\* the shapes must agree
dot(w, v) ==
    IF Len(v) # input_size THEN [err |-> "ValueError", val |-> <<>>]
    ELSE [err |-> "",
          val |-> [j \in 1..output_size |->
                     SumTo([i \in 1..input_size |-> w[<<j, i>>] * v[i]], input_size)]]

\* v[ :n ]
Prefix(v, n) == SubSeq(v, 1, Min(n, Len(v)))

\* what a call of the rule or a forward pass leaves: resistances, weights,
\* converter extremes, the devices driven, and the output out
Outcome(err, r, w, lo, hi, driven, out, calls, arg, error) ==
    [err |-> IF err # "" THEN err ELSE out.err,
     r |-> r, weights |-> w, smallest |-> lo, largest |-> hi,
     pulsed |-> driven, ret |-> out.val,
     calls |-> calls, arg |-> arg,
     rule_ret |-> IF calls = 1 THEN out.val ELSE <<>>,
     error |-> error]

\* the error signal the rule holds after a call with arg
RuleError(arg) ==
    IF has_error_signal THEN SubSeq(arg, input_size + 1, Len(arg)) ELSE rule_error

\* the rule's call ends: the forward pass of the weights w over the activities
RuleReturn(err, r, w, lo, hi, driven, arg) ==
    Outcome(err, r, w, lo, hi, driven, dot(w, Prefix(arg, input_size)),
            1, arg, RuleError(arg))

\* the rule has pulsed the element at d.pos with result p: it stores the
\* pulse's return value in weights at that position
RulePulsed(p, d, arg) ==
    RuleReturn(p.err, [r_curr EXCEPT ![d.pos] = p.r],
               IF p.err = "" THEN [weights EXCEPT ![d.pos] = p.ret] ELSE weights,
               p.smallest, p.largest,
               {[pos |-> d.pos, signal |-> d.signal,
                 before |-> r_curr[d.pos], after |-> p.r,
                 d1 |-> p.d1, d2 |-> p.d2]},
               arg)

\* the rule pulses the element d names
RulePulse(d, arg) ==
    RulePulsed(ElementPulse(r_curr[d.pos], d.signal, smallest_seen, largest_seen),
               d, arg)

\* the learning rule called with (t, arg): it pulses the elements it chose
\* (drive: at most one [pos, signal] here), stores each pulse's return value
\* in weights at that position, and returns the forward pass of the updated
\* weights over the activities
RuleCall(arg, drive) ==
    IF drive = {}
    THEN RuleReturn("", r_curr, weights, smallest_seen, largest_seen, {}, arg)
    ELSE RulePulse(CHOOSE e \in drive : TRUE, arg)

\* a forward pass that goes through the learning rule, which pulses
InferViaRule(input_activities) ==
    RuleCall(input_activities, {[pos |-> <<1, 1>>, signal |-> 2]})

\* a forward pass over the last input_size components instead of the first
InferWrongSlice(input_activities) ==
    Outcome("", r_curr, weights, smallest_seen, largest_seen, {},
            dot(weights, SubSeq(input_activities,
                                Len(input_activities) - input_size + 1,
                                Len(input_activities))),
            0, <<>>, rule_error)

\* the read-only forward pass of MemristorArray.__call__
Infer(input_activities) ==
    Outcome("", r_curr, weights, smallest_seen, largest_seen, {},
            IF has_error_signal
            THEN dot(weights, Prefix(input_activities, input_size))
            ELSE dot(weights, input_activities),
            0, <<>>, rule_error)

\* the route MemristorArray.__call__ takes for the input x
Route(x) ==
    IF has_learning_signal
    THEN IF rint(x[Len(x)], XUnit) # 0 THEN "learn" ELSE "infer"
    ELSE "direct"

\* lines 202-214 of MemristorArray.__call__: the route and its result
Forward(x, drive) ==
    CASE Route(x) = "learn" -> RuleCall(SubSeq(x, 1, Len(x) - 1), drive)
      [] Route(x) = "infer" -> Infer(SubSeq(x, 1, Len(x) - 1))
      [] Route(x) = "direct" -> RuleCall(x, drive)

\* the loop that fills the conductance matrix of a logged call:
\* conductances[ j, i ] for i in range( output_size ), j in range( input_size ),
\* on an output_size x input_size matrix, leaves the matrix when j or i does
ConductanceLoopRaises ==
    \E i \in 0..(output_size - 1), j \in 0..(input_size - 1) :
        j > output_size - 1 \/ i > input_size - 1

\* the matrix that loop builds when it completes
Conductances(r) ==
    [p \in Pos |-> ElementGetState(r[p], "conductance", FALSE, 1)]

\* self.weight_history.append( self.weights ): each entry is the live matrix
AppendAlias(hist, w) == [k \in 1..(Len(hist) + 1) |-> w]

\* self.weight_history.append( self.weights.copy() )
AppendSnapshot(hist, w) == Append(hist, w)

\* learning_rule.get_error_signal() raises for a rule without error signal
ErrorSignalFails == ~has_error_signal

\* MemristorArray.__call__( t, x ); drive is what the rule, if called, pulses
Call(x, drive) ==
    /\ outcome # "raised"
    /\ numCalls < MaxCalls
    /\ \E f \in {Forward(x, drive)} :
       LET raisedEarly == f.err # ""
           raisedLate == ~raisedEarly /\ ConductanceLoopRaises
       IN  /\ numCalls' = numCalls + 1
           /\ x_in' = x
           /\ path' = Route(x)
           /\ rule_calls' = f.calls
           /\ rule_arg' = f.arg
           /\ rule_ret' = f.rule_ret
           /\ pulsed' = f.pulsed
           /\ r_curr' = f.r
           /\ weights' = f.weights
           /\ smallest_seen' = f.smallest
           /\ largest_seen' = f.largest
           /\ rule_error' = f.error
           /\ outcome' = IF raisedEarly \/ raisedLate THEN "raised" ELSE "returned"
           /\ ret' = IF raisedEarly \/ raisedLate THEN <<>> ELSE f.ret
           \* the logging block
           /\ error_history' = IF raisedEarly \/ ErrorSignalFails THEN error_history
                               ELSE Append(error_history, f.error)
           /\ weight_history' = IF raisedEarly THEN weight_history
                                ELSE AppendSnapshot(weight_history, f.weights)
           /\ history' = IF raisedEarly THEN history
                         ELSE [p \in Pos |-> Append(history[p], f.r[p])]
           /\ conductance_history' =
                  IF raisedEarly \/ raisedLate THEN conductance_history
                  ELSE Append(conductance_history, Conductances(f.r))
    /\ UNCHANGED <<config, direct, probe>>

---------------------------------------------------------------------------
(* Construction and the runs of the controller *)

\* no device or query has been called on its own
NoProbe == [op |-> "none", n |-> 0]

Shapes == {<<1, 1>>, <<1, 2>>, <<2, 1>>, <<2, 2>>}
Models == {"Memristor", "MemristorPlusMinus", "MemristorComplementary"}
Gains == {1000, DefaultGain}
Seeds == {"None", "fixed"}
ArrayLevels == {3}

\* the seed device k (1: the lone device or mem_one, 2: mem_two) of the
\* element at p is built with: MemristorArray.__init__ passes seed=seed to
\* every element and MemristorPair passes its seed on to both its devices
ElementSeed(sd, p, k) == sd

\* the resistances random.uniform gives the devices, in construction order:
\* with a fixed seed every device reseeds the generator with the seed it was
\* given, so that devices of equal seeds draw the same value; with seed None
\* the draws are unrelated
InitialResistances(sd, out, in) ==
    LET P == (1..out) \X (1..in)
    IN  IF sd = "fixed"
        THEN {[p \in P |-> [one |-> draw[ElementSeed(sd, p, 1)],
                            two |-> draw[ElementSeed(sd, p, 2)]]] :
                 draw \in [{ElementSeed(sd, q, k) : q \in P, k \in 1..2} -> InitR]}
        ELSE {[p \in P |-> IF (p[1] + p[2]) % 2 = 0
                           THEN [one |-> v, two |-> w]
                           ELSE [one |-> w, two |-> v]] :
                 <<v, w>> \in {vw \in InitR \X InitR : vw[1] # vw[2]}}

\* MemristorController.__init__ and MemristorArray.__init__
Init ==
    /\ \E sh \in Shapes : output_size = sh[1] /\ input_size = sh[2]
    /\ model \in Models
    /\ gain \in Gains
    /\ seed \in Seeds
    /\ levels \in ArrayLevels
    /\ has_learning_signal \in BOOLEAN
    /\ has_error_signal \in BOOLEAN
    /\ smallest_seen = 0
    /\ largest_seen = 0
    /\ r_curr \in InitialResistances(seed, output_size, input_size)
    /\ history = [p \in Pos |-> <<>>]
    /\ weights = [p \in Pos |-> ElementInitialState(r_curr[p])]
    /\ weight_history = <<>>
    /\ error_history = <<>>
    /\ conductance_history = <<>>
    /\ rule_error = <<>>
    /\ numCalls = 0
    /\ outcome = "none"
    /\ path = "none"
    /\ x_in = <<>>
    /\ rule_calls = 0
    /\ rule_arg = <<>>
    /\ rule_ret = <<>>
    /\ ret = <<>>
    /\ pulsed = {}
    /\ fed = <<>>
    /\ ranks = <<>>
    /\ law = "BidirectionalPowerlawMemristor"
    /\ probe = NoProbe

\* the activities the harness delivers for n inputs
Activities(n) == {[i \in 1..n |-> i * XUnit]}
\* the error components: one dimension
ErrorComponents == {<<-2>>}
\* the learning flag: 0, 0.5, 0.75, 1
Flags == {0, 2, 3, 4}

\* the input vectors laid out for the bound rule:
\* [input_activities..., error_components..., learning_flag]
Inputs ==
    {a \o e \o f :
        a \in Activities(input_size),
        e \in (IF has_error_signal THEN ErrorComponents ELSE {<<>>}),
        f \in (IF has_learning_signal THEN {<<v>> : v \in Flags} ELSE {<<>>})}

\* the signals the rule drives an element with
Signals == {-1, 0, 2}
\* the elements the rule pulses in one call: none, or one of them
Drives ==
    {{}} \cup {{[pos |-> p, signal |-> s]} : p \in Pos, s \in Signals}

\* the rule's choice matters only on the routes that call it
DrivesFor(x) == IF Route(x) = "infer" THEN {{}} ELSE Drives

Next == \E x \in Inputs : \E drive \in DrivesFor(x) : Call(x, drive)

Spec == Init /\ [][Next]_vars

---------------------------------------------------------------------------
(* A LevelsVoltageConverter called on its own *)

ConverterLevels == {1, 2, 3, 10}
ConverterSignals == {-5, -2, 0, 3, 5, 10}

\* LevelsVoltageConverter.__init__; no array is built
InitConverter ==
    /\ levels \in ConverterLevels
    /\ smallest_seen = 0
    /\ largest_seen = 0
    /\ fed = <<>>
    /\ ranks = <<>>
    /\ input_size = 0 /\ output_size = 0
    /\ model = "none" /\ gain = DefaultGain /\ seed = "None"
    /\ has_learning_signal = FALSE /\ has_error_signal = FALSE
    /\ r_curr = <<>> /\ history = <<>> /\ weights = <<>>
    /\ weight_history = <<>> /\ error_history = <<>>
    /\ conductance_history = <<>> /\ rule_error = <<>>
    /\ numCalls = 0 /\ outcome = "none" /\ path = "none" /\ x_in = <<>>
    /\ rule_calls = 0 /\ rule_arg = <<>> /\ rule_ret = <<>> /\ ret = <<>>
    /\ pulsed = {}
    /\ law = "BidirectionalPowerlawMemristor"
    /\ probe = NoProbe

\* LevelsVoltageConverter.__call__( signal )
Feed(signal) ==
    /\ Len(fed) < MaxFeeds
    /\ \E c \in {Convert(smallest_seen, largest_seen, levels, signal)} :
          /\ smallest_seen' = c.smallest
          /\ largest_seen' = c.largest
          /\ ranks' = Append(ranks, c.num_steps)
    /\ fed' = Append(fed, signal)
    /\ UNCHANGED <<config, array, lastcall, probe>>

NextConverter == \E s \in ConverterSignals : Feed(s)

SpecConverter == InitConverter /\ [][NextConverter]_vars

---------------------------------------------------------------------------
(* A device of the array pulsed and read on its own *)

Laws == {"OnedirectionalPowerlawMemristor", "BidirectionalPowerlawMemristor",
         "MemristorAnouk", "MemristorAnoukBidirectional"}
DeviceLevels == {2}
DeviceSignals == {-2, -1, 0, 1, 2}
ValueSelectors == {"conductance", "resistance", "weight"}

\* the one device of a 1 x 1 array
Dev == <<1, 1>>

\* a 1 x 1 MemristorArray of lone devices of any of the four laws
InitDevice ==
    /\ input_size = 1 /\ output_size = 1
    /\ model = "Memristor"
    /\ law \in Laws
    /\ gain \in Gains
    /\ seed \in Seeds
    /\ levels \in DeviceLevels
    /\ has_learning_signal = FALSE /\ has_error_signal = FALSE
    /\ smallest_seen = 0
    /\ largest_seen = 0
    /\ r_curr \in InitialResistances(seed, 1, 1)
    /\ history = [p \in Pos |-> <<>>]
    /\ weights = [p \in Pos |-> ElementInitialState(r_curr[p])]
    /\ weight_history = <<>> /\ error_history = <<>>
    /\ conductance_history = <<>> /\ rule_error = <<>>
    /\ numCalls = 0 /\ outcome = "none" /\ path = "none" /\ x_in = <<>>
    /\ rule_calls = 0 /\ rule_arg = <<>> /\ rule_ret = <<>> /\ ret = <<>>
    /\ pulsed = {}
    /\ fed = <<>> /\ ranks = <<>>
    /\ probe = NoProbe

\* memristors[ 0, 0 ].pulse( signal )
DevicePulse(signal) ==
    /\ probe.n < MaxPulses
    /\ \E p \in {MemristorPulse(r_curr[Dev].one, signal,
                                 smallest_seen, largest_seen)} :
          /\ r_curr' = [r_curr EXCEPT ![Dev].one = p.r]
          /\ smallest_seen' = p.smallest
          /\ largest_seen' = p.largest
          /\ probe' = [op |-> "pulse", n |-> probe.n + 1, signal |-> signal,
                       before |-> r_curr[Dev].one,
                       lo |-> smallest_seen, hi |-> largest_seen,
                       err |-> p.err,
                       ret |-> IF p.err = "" THEN <<p.ret>> ELSE <<>>,
                       num_steps |-> p.num_steps, consulted |-> p.consulted]
    /\ UNCHANGED <<config, history, weights, weight_history, error_history,
                   conductance_history, rule_error, lastcall, direct>>

\* Memristor.get_state called with any selector: ret_val is bound for
\* "conductance" and "resistance" alone, and the return statement reads it
GetStateCall(r, value, scaled, g) ==
    IF value \in {"conductance", "resistance"}
    THEN [err |-> "", ret |-> <<get_state(r, value, scaled, g)>>]
    ELSE [err |-> "UnboundLocalError", ret |-> <<>>]

\* the ways the program reads a device: scaled with the configured gain,
\* unscaled with gain 1
ReadModes == {[scaled |-> TRUE, gain |-> gain], [scaled |-> FALSE, gain |-> 1]}

\* memristors[ 0, 0 ].get_state( value, scaled, gain )
DeviceGetState(value, mode) ==
    /\ \E q \in {GetStateCall(r_curr[Dev].one, value, mode.scaled, mode.gain)} :
          probe' = [op |-> "get_state", n |-> probe.n, select |-> value,
                    scaled |-> mode.scaled, err |-> q.err, ret |-> q.ret]
    /\ UNCHANGED <<config, converter, array, lastcall, direct>>

NextDevice ==
    \/ \E s \in DeviceSignals : DevicePulse(s)
    \/ \E v \in ValueSelectors : \E m \in ReadModes : DeviceGetState(v, m)

SpecDevice == InitDevice /\ [][NextDevice]_vars

---------------------------------------------------------------------------
(* The histories of a controller queried between its calls *)

HistorySelectors == {"weight", "error", "conductance", "resistance"}
\* the index pairs int( time[ 0 ] / dt ), int( time[ 1 ] / dt ) of get_stats
Slices == {<<0, 1>>, <<0, 2>>, <<1, 3>>}

\* MemristorController.get_history: a selector none of the three tests match
\* falls off the end of the method, which so returns None
get_history(select) ==
    CASE select = "weight" -> [err |-> "", none |-> FALSE, ret |-> <<weight_history>>]
      [] select = "error" -> [err |-> "", none |-> FALSE, ret |-> <<error_history>>]
      [] select = "conductance" ->
            [err |-> "", none |-> FALSE, ret |-> <<conductance_history>>]
      [] OTHER -> [err |-> "", none |-> TRUE, ret |-> <<>>]

\* data[ lo:hi ]
Slice(data, lo, hi) == SubSeq(data, lo + 1, Min(hi, Len(data)))

\* all the numbers in the entries of data
AllValues(data) ==
    UNION {{data[k][i] : i \in DOMAIN data[k]} : k \in 1..Len(data)}

RECURSIVE SumOver(_, _)
\* the sum of the numbers of the entry e at the indices D
SumOver(e, D) ==
    IF D = {} THEN 0
    ELSE SumOver(e, D \ {CHOOSE i \in D : TRUE}) + e[CHOOSE i \in D : TRUE]

\* np.mean( data ): the sum of all numbers over their count
Mean(data) ==
    SumTo([k \in 1..Len(data) |-> SumOver(data[k], DOMAIN data[k])], Len(data))
        \div SumTo([k \in 1..Len(data) |-> Cardinality(DOMAIN data[k])], Len(data))

\* np.amax, np.amin and np.mean of the sliced data: amax raises on no numbers
Stats(data_at_time, vals) ==
    IF vals = {} THEN [err |-> "ValueError", none |-> FALSE, ret |-> <<>>]
    ELSE [err |-> "", none |-> FALSE,
          ret |-> <<[max |-> CHOOSE v \in vals : \A w \in vals : w <= v,
                     min |-> CHOOSE v \in vals : \A w \in vals : v <= w,
                     mean |-> Mean(data_at_time)]>>]

\* get_stats from the slice on
StatsOf(data_at_time) == Stats(data_at_time, AllValues(data_at_time))

\* MemristorController.get_stats with data what get_history returned:
\* None cannot be sliced
StatsFrom(data, lo, hi) ==
    IF data.none THEN [err |-> "TypeError", none |-> FALSE, ret |-> <<>>]
    ELSE StatsOf(Slice(data.ret[1], lo, hi))

\* MemristorController.get_stats( time, select )
get_stats(lo, hi, select) == StatsFrom(get_history(select), lo, hi)

\* the 1 x 1 controllers with the default gain
InitQueries ==
    /\ Init
    /\ input_size = 1 /\ output_size = 1
    /\ gain = DefaultGain

\* get_history( select ) called on the controller
GetHistory(select) ==
    /\ \E q \in {get_history(select)} :
          probe' = [op |-> "get_history", n |-> probe.n, select |-> select,
                    err |-> q.err, none |-> q.none, ret |-> q.ret]
    /\ UNCHANGED <<config, converter, array, lastcall, direct>>

\* get_stats( time, select ) called on the controller
GetStats(sl, select) ==
    /\ \E q \in {get_stats(sl[1], sl[2], select)} :
          probe' = [op |-> "get_stats", n |-> probe.n, select |-> select,
                    lo |-> sl[1], hi |-> sl[2],
                    err |-> q.err, none |-> q.none, ret |-> q.ret]
    /\ UNCHANGED <<config, converter, array, lastcall, direct>>

NextQueries ==
    \/ Next
    \/ \E v \in ValueSelectors : \E m \in ReadModes : DeviceGetState(v, m)
    \/ \E sel \in HistorySelectors : GetHistory(sel)
    \/ \E sl \in Slices : \E sel \in HistorySelectors : GetStats(sl, sel)

SpecQueries == InitQueries /\ [][NextQueries]_vars

---------------------------------------------------------------------------
(* The forward pass handed vectors of any length *)

\* error.dimensions of the harness: the error components of the layout
ErrorDimensions == 1

\* the length of the input vector in the layout of the bound rule:
\* input_size activities, the error components, the learning flag
ExpectedLength ==
    input_size + (IF has_error_signal THEN ErrorDimensions ELSE 0)
               + (IF has_learning_signal THEN 1 ELSE 0)

\* the flags that np.rint takes to 0
InferFlags == {f \in Flags : rint(f, XUnit) = 0}

\* n components before the flag: activities, then error values
Components(n) == [i \in 1..n |-> IF i <= input_size THEN i * XUnit ELSE -2]

\* vectors one component short of the layout, of its length, one too long
AnyLengthInputs ==
    {Components(n - 1) \o <<f>> :
        n \in {ExpectedLength - 1, ExpectedLength, ExpectedLength + 1},
        f \in InferFlags}

\* the controllers bound to a rule with a learning signal
InitShapes ==
    /\ Init
    /\ has_learning_signal

NextShapes == \E x \in AnyLengthInputs : Call(x, {})

SpecShapes == InitShapes /\ [][NextShapes]_vars

---------------------------------------------------------------------------
(* Properties *)

\* the scaled conductance (for a pair: the difference) of the element at p,
\* read now with the controller's configured gain
LiveWeight(p) == ElementGetState(r_curr[p], "conductance", TRUE, gain)

\* C1: after construction and after every call, weights[j,i] is the current
\* scaled conductance of devices[j,i] (for a pair the difference of the two),
\* computed with the controller's configured gain.
C1_WeightsFollowDevices == \A p \in Pos : weights[p] = LiveWeight(p)

\* C2: a call that takes the Infer route pulses no device: resistances,
\* weights and the converter's extremes are as before the call, and the
\* learning rule is not called.
C2_InferChangesNothing ==
    [][(numCalls' = numCalls + 1 /\ path' = "infer") =>
          /\ r_curr' = r_curr
          /\ weights' = weights
          /\ smallest_seen' = smallest_seen
          /\ largest_seen' = largest_seen
          /\ rule_calls' = 0
          /\ pulsed' = {}]_vars

\* an Infer call made after a Learn call that pulsed a device
C2_Witness ==
    /\ path = "infer" /\ numCalls = 2 /\ outcome = "returned"
    /\ largest_seen > 0
    /\ \E p \in Pos : Len(history[p]) = 2 /\ history[p][1] = history[p][2]
                      /\ history[p][2] = r_curr[p]

\* C3: on the Infer route the output is the product of the weights with the
\* first input_size components of the input, with or without an error signal
\* declared; weights [[1,2],[3,4]] and activities [1,1] give [3,7].
C3_InferOutputIsMatVec ==
    /\ (path = "infer" /\ outcome = "returned") =>
          /\ Len(ret) = output_size
          /\ \A j \in 1..output_size :
                ret[j] = SumTo([i \in 1..input_size |-> weights[<<j, i>>] * x_in[i]],
                               input_size)
    /\ (input_size = 2 /\ output_size = 2) =>
          dot([p \in Pos |-> 2 * (p[1] - 1) + p[2]], <<1, 1>>).val = <<3, 7>>

\* an Infer call that returned, the rule declaring an error signal, on a
\* 2 x 2 array whose weights are not all equal
C3_Witness ==
    /\ path = "infer" /\ outcome = "returned" /\ has_error_signal
    /\ input_size = 2 /\ output_size = 2
    /\ weights[<<1, 1>>] # weights[<<1, 2>>]
    /\ ret # <<0, 0>>

\* C4: with a learning flag, the last component of the input rounds to 0 or
\* 1 and the rule is called, once, with the input minus the flag, and its
\* return value is the output, exactly when the flag rounds to 1 (it is
\* above one half); without a learning flag every call calls the rule once
\* with the whole input and returns its result.
C4_Routing ==
    numCalls > 0 =>
        IF has_learning_signal
        THEN LET flag == x_in[Len(x_in)]
                 rounded == IF 2 * flag > XUnit THEN 1 ELSE 0
             IN  /\ rint(flag, XUnit) = rounded
                 /\ rule_calls = rounded
                 /\ path = (IF rounded = 1 THEN "learn" ELSE "infer")
                 /\ rounded = 1 =>
                       /\ rule_arg = SubSeq(x_in, 1, Len(x_in) - 1)
                       /\ outcome = "returned" => ret = rule_ret
        ELSE /\ rule_calls = 1
             /\ rule_arg = x_in
             /\ outcome = "returned" => ret = rule_ret

\* a call whose flag was one half (no rule call) after one whose flag was
\* three quarters or more that pulsed
C4_Witness ==
    /\ has_learning_signal /\ numCalls = 2 /\ outcome = "returned"
    /\ x_in[Len(x_in)] = 2 /\ rule_calls = 0
    /\ largest_seen > 0

\* C5: after N calls, len(weight_history) = len(conductance_history) = N,
\* for any array shape, square or not.
C5_HistoryLengths ==
    /\ Len(weight_history) = numCalls
    /\ Len(conductance_history) = numCalls

\* C6: when get_error_signal fails during a logged call, the call still
\* returns its output, appends one weight snapshot and one conductance
\* snapshot, and appends nothing to error_history.
C6_MissingErrorSignalTolerated ==
    (numCalls > 0 /\ ErrorSignalFails) =>
        /\ outcome = "returned"
        /\ Len(weight_history) = numCalls
        /\ Len(conductance_history) = numCalls
        /\ error_history = <<>>

\* C7: plus-minus pair: a positive signal leaves mem_two unchanged, a
\* negative signal leaves mem_one unchanged and drives mem_two with -signal,
\* a zero signal changes neither device.
C7_PlusMinusPolicy ==
    model = "MemristorPlusMinus" =>
        \A q \in pulsed :
            /\ q.signal > 0 => (q.after.two = q.before.two /\ q.d2 = {}
                                /\ q.d1 = {q.signal})
            /\ q.signal < 0 => (q.after.one = q.before.one /\ q.d1 = {}
                                /\ q.d2 = {-q.signal})
            /\ q.signal = 0 => (q.after = q.before /\ q.d1 = {} /\ q.d2 = {})

\* a plus-minus pair was pulsed with a negative signal and mem_two moved
C7_Witness ==
    /\ model = "MemristorPlusMinus"
    /\ \E q \in pulsed : q.signal < 0 /\ q.after.two # q.before.two

\* C8: complementary pair: every nonzero signal pulses both devices,
\* mem_one with the sign of the signal and mem_two with the opposite sign,
\* for negative signals as for positive ones.
C8_ComplementaryPolicy ==
    model = "MemristorComplementary" =>
        \A q \in pulsed :
            q.signal # 0 =>
                /\ \E v \in q.d1 : Sign(v) = Sign(q.signal)
                /\ \E v \in q.d2 : Sign(v) = -Sign(q.signal)

\* the k-th of the n equally spaced points from lo to hi is at most s
AtOrBelow(lo, hi, n, k, s) ==
    IF n = 1 THEN lo <= s ELSE (n - 1) * lo + k * (hi - lo) <= (n - 1) * s

\* C9: after the extremes are updated with the signal, the result is the
\* 1-based rank of the signal among levels equally spaced points from the
\* running minimum to the running maximum: it is in 1..levels, does not
\* decrease with the signal for a fixed range, and is levels when the signal
\* is the running maximum; a fresh instance fed 5 alone returns levels.
C9_RankOfSignal ==
    Len(fed) > 0 =>
        LET s == fed[Len(fed)]
            rk == ranks[Len(ranks)]
        IN  /\ rk \in 1..levels
            /\ AtOrBelow(smallest_seen, largest_seen, levels, rk - 1, s)
            /\ rk < levels =>
                  ~AtOrBelow(smallest_seen, largest_seen, levels, rk, s)
            /\ s = largest_seen => rk = levels
            /\ \A s1, s2 \in smallest_seen..largest_seen :
                  s1 <= s2 =>
                      Convert(smallest_seen, largest_seen, levels, s1).num_steps
                      <= Convert(smallest_seen, largest_seen, levels, s2).num_steps
            /\ fed = <<5>> => ranks = <<levels>>

\* a signal strictly inside the running range got a rank strictly between 1
\* and levels
C9_Witness ==
    /\ Len(fed) > 0 /\ levels = 10
    /\ smallest_seen < fed[Len(fed)] /\ fed[Len(fed)] < largest_seen
    /\ ranks[Len(ranks)] \in 2..9

\* C10 as stated: 0, 5, -5, 10 fed to a fresh 10-level converter give a
\* non-decreasing sequence of ranks that ends at 10.
C10_RanksNonDecreasing ==
    (levels = 10 /\ fed = <<0, 5, -5, 10>>) =>
        /\ \A k \in 1..3 : ranks[k] <= ranks[k + 1]
        /\ ranks[4] = 10

\* C10 amended: 0, 5, -5, 10 fed to a fresh 10-level converter give the
\* ranks 10, 10, 1, 10: the rank is 10 at every call whose signal is the
\* running maximum and drops to 1 at the third call, whose signal is the new
\* running minimum.
C10_RanksOfSequence ==
    (levels = 10 /\ fed = <<0, 5, -5, 10>>) => ranks = <<10, 10, 1, 10>>

\* the four signals were fed to a 10-level converter
C10_Witness == levels = 10 /\ fed = <<0, 5, -5, 10>> /\ Len(ranks) = 4

---------------------------------------------------------------------------
(* The device on its own *)

\* C11: Device.pulse with a signal of exactly 0 performs no update step,
\* leaves the resistance unchanged, does not consult the pulse quantizer (its
\* running minimum and maximum stay), raises nothing and returns the device's
\* current scaled conductance.
C11_ZeroSignalNoOp ==
    (probe.op = "pulse" /\ probe.signal = 0) =>
        /\ probe.num_steps = 0
        /\ r_curr[Dev].one = probe.before
        /\ probe.consulted = 0
        /\ smallest_seen = probe.lo /\ largest_seen = probe.hi
        /\ probe.err = ""
        /\ probe.ret = <<get_state(r_curr[Dev].one, "conductance", TRUE, gain)>>

\* a zero signal has reached a device whose converter has seen other signals
C11_Witness ==
    /\ probe.op = "pulse" /\ probe.signal = 0
    /\ probe.n = 2
    /\ smallest_seen < 0 \/ largest_seen > 0

\* C12: on the one-directional power-law device a pulse with non-positive
\* voltage (a negative or zero signal) completes without error and leaves
\* the resistance unchanged; only positive voltage changes the resistance.
C12_OnedirectionalNonPositive ==
    (law = "OnedirectionalPowerlawMemristor" /\ probe.op = "pulse") =>
        /\ probe.signal <= 0 =>
               probe.err = "" /\ r_curr[Dev].one = probe.before
        /\ r_curr[Dev].one # probe.before => probe.signal > 0

\* the laws with a branch of their own for negative voltage, anchored at r_3
BidirectionalLaws == {"BidirectionalPowerlawMemristor", "MemristorAnoukBidirectional"}

\* C13: for every device law, a pulse with a nonzero signal moves the
\* resistance monotonically, down or not at all for V > 0 and up or not at
\* all for V < 0, and in every reachable state the resistance lies between
\* r_0 and the upper anchor.
C13_MonotoneWithinBounds ==
    /\ r_0 <= r_curr[Dev].one /\ r_curr[Dev].one <= r_3
    /\ probe.op = "pulse" =>
           /\ probe.signal > 0 => r_curr[Dev].one <= probe.before
           /\ probe.signal < 0 => r_curr[Dev].one >= probe.before

\* C13, amended: in every reachable state the resistance lies between r_0
\* and the upper anchor; a pulse with a positive signal never raises it; a
\* pulse with a negative signal never lowers it under the two bidirectional
\* laws, never raises it under the unidirectional empirical law, whose one
\* branch serves both signs, and leaves it as it was under the
\* one-directional power law.
C13_MonotoneByLaw ==
    /\ r_0 <= r_curr[Dev].one /\ r_curr[Dev].one <= r_3
    /\ probe.op = "pulse" =>
           /\ probe.signal > 0 => r_curr[Dev].one <= probe.before
           /\ (probe.signal < 0 /\ law \in BidirectionalLaws) =>
                  r_curr[Dev].one >= probe.before
           /\ (probe.signal < 0 /\ law = "MemristorAnouk") =>
                  r_curr[Dev].one <= probe.before
           /\ (probe.signal < 0 /\ law = "OnedirectionalPowerlawMemristor") =>
                  r_curr[Dev].one = probe.before

\* a second pulse in a row with a negative signal has lowered the resistance
\* of a device of the unidirectional empirical law
C13_Witness ==
    /\ law = "MemristorAnouk"
    /\ probe.op = "pulse" /\ probe.n = 2 /\ probe.signal < 0
    /\ probe.err = ""
    /\ r_curr[Dev].one < probe.before
    /\ probe.before < 100

---------------------------------------------------------------------------
(* Queries *)

\* C14: Device.get_state with a selector other than "resistance" and
\* "conductance", and get_history and get_stats with a selector other than
\* "weight", "error" and "conductance", end in an error at that call: no
\* value, not even None, is returned.
C14_UnknownSelectorRaises ==
    /\ (probe.op = "get_state" /\ probe.select \notin {"resistance", "conductance"}) =>
           probe.err # "" /\ probe.ret = <<>>
    /\ (/\ probe.op \in {"get_history", "get_stats"}
        /\ probe.select \notin {"weight", "error", "conductance"}) =>
           probe.err # "" /\ probe.ret = <<>> /\ ~probe.none

\* C15: a call whose input vector has not the length of the controller's
\* layout ends in an error raised during that call, and a forward pass that
\* returns gives output_size components.
C15_LengthMismatchRaises ==
    numCalls > 0 =>
        /\ Len(x_in) # ExpectedLength => outcome = "raised"
        /\ (outcome = "returned" /\ path = "infer") => Len(ret) = output_size

---------------------------------------------------------------------------
(* Construction *)

\* the devices of the array: one per element, two per element of pairs
Devices == Pos \X (IF model = "Memristor" THEN {1} ELSE {1, 2})

\* C16: at construction with a non-null controller seed every device of the
\* matrix gets a seed of its own: no two elements, and no two devices of a
\* pair, are built with the same seed.
C16_SeedsPerPosition ==
    (numCalls = 0 /\ seed # "None") =>
        \A d \in Devices, e \in Devices :
            d # e => ElementSeed(seed, d[1], d[2]) # ElementSeed(seed, e[1], e[2])

---------------------------------------------------------------------------
(* Histories *)

\* C17: every logged call appends one entry to weight_history, the weight
\* matrix as the call leaves it, and one entry to the resistance history of
\* every device, its resistance at that moment; the entries already there
\* stay as they were.
C17_AppendOnlySnapshots ==
    [][numCalls' = numCalls + 1 =>
          /\ weight_history' = Append(weight_history, weights')
          /\ \A p \in Pos : history'[p] = Append(history[p], r_curr'[p])]_vars

\* two logged calls, the second of which has pulsed: the first entries keep
\* the weights and resistances the later call changed
C17_Witness ==
    /\ numCalls = 2
    /\ Len(weight_history) = 2
    /\ weight_history[2] = weights
    /\ weight_history[1] # weights
    /\ \E p \in Pos : Len(history[p]) = 2 /\ history[p][1] # r_curr[p]
                        /\ history[p][2] = r_curr[p]

=============================================================================
